---------------------------- MODULE Spec2Model ----------------------------
(***************************************************************************)
(* Calendar-Custom-Color: a browser extension that recolors the day cells  *)
(* of a web calendar.  popup.js parses uploaded ICS files and persists the *)
(* settings; content.js reads the settings and annotates the day cells.   *)
(*                                                                         *)
(* JavaScript strings that the code takes apart (ICS lines, ICS dates,     *)
(* date strings, calendar titles) are sequences of symbols: one symbol per *)
(* character for dates and numbers, one symbol per word for property names *)
(* and free text, and ":" always a symbol of its own.  Strings that the    *)
(* code only stores and compares (colors, weekday names) are TLA+ strings. *)
(* A JavaScript value that may be undefined is <<>> (undefined) or <<v>>.  *)
(***************************************************************************)
EXTENDS Integers, Sequences, FiniteSets, TLC

(***************************************************************************)
(* JavaScript primitives used by the code                                  *)
(***************************************************************************)
Undefined == <<>>

Some(v) == <<v>>

IsDefined(o) == o # <<>>

\* NaN is the number that is no number
NaN == <<>>

Num(n) == <<n>>

DigitChars == <<"0", "1", "2", "3", "4", "5", "6", "7", "8", "9">>

IsDigit(c) == \E i \in 1..10 : DigitChars[i] = c

DigitVal(c) == (CHOOSE i \in 1..10 : DigitChars[i] = c) - 1

RECURSIVE NatToStr(_)
\* Number.prototype.toString of a non-negative integer
NatToStr(n) ==
    IF n < 10 THEN <<DigitChars[n + 1]>>
    ELSE NatToStr(n \div 10) \o <<DigitChars[(n % 10) + 1]>>

\* the text a template literal `${v}` gives for a number v
NumToStr(v) ==
    IF v = NaN THEN <<"N", "a", "N">>
    ELSE IF v[1] < 0 THEN <<"-">> \o NatToStr(-v[1])
    ELSE NatToStr(v[1])

RECURSIVE SkipSpaces(_)
SkipSpaces(s) ==
    IF s # <<>> /\ Head(s) = " " THEN SkipSpaces(Tail(s)) ELSE s

RECURSIVE DigitPrefix(_)
\* the longest prefix of s made of decimal digits
DigitPrefix(s) ==
    IF s # <<>> /\ IsDigit(Head(s)) THEN <<Head(s)>> \o DigitPrefix(Tail(s))
    ELSE <<>>

RECURSIVE DigitsVal(_)
DigitsVal(ds) ==
    IF ds = <<>> THEN 0
    ELSE 10 * DigitsVal(SubSeq(ds, 1, Len(ds) - 1)) + DigitVal(ds[Len(ds)])

\* parseInt(s, 10): leading blanks, an optional sign, then the longest run
\* of digits; NaN when there is no digit
parseInt(s) ==
    LET t == SkipSpaces(s)
        neg == t # <<>> /\ Head(t) = "-"
        u == IF t # <<>> /\ Head(t) \in {"-", "+"} THEN Tail(t) ELSE t
        ds == DigitPrefix(u)
    IN  IF ds = <<>> THEN NaN
        ELSE IF neg THEN Num(-DigitsVal(ds)) ELSE Num(DigitsVal(ds))

\* String.prototype.substring(from, to) with 0 <= from <= to
substring(s, from, to) ==
    SubSeq(s, from + 1, IF to > Len(s) THEN Len(s) ELSE to)

Pow2(n) == 2 ^ n

\* x >> n on a 32-bit integer (NaN converts to 0): an arithmetic shift
Shr(x, n) == IF x = NaN THEN 0 ELSE x[1] \div Pow2(n)

RECURSIVE BitAnd(_, _)
\* a & m for a mask m >= 0; a negative a is read in two's complement
BitAnd(a, m) ==
    IF m = 0 THEN 0
    ELSE (a % 2) * (m % 2) + 2 * BitAnd(a \div 2, m \div 2)

(***************************************************************************)
(* content.js: the date codec                                              *)
(***************************************************************************)
\* keyToDate with the day read through the month's mask
keyToDateDayMask(dataDateKey) ==
    LET yearOffset == BitAnd(Shr(dataDateKey, 9), 255)
        month == BitAnd(Shr(dataDateKey, 5), 15)
        day == BitAnd(Shr(dataDateKey, 0), 15)
        year == 1970 + yearOffset
    IN  NatToStr(year) \o <<"-">> \o NatToStr(month) \o <<"-">> \o NatToStr(day)

\* keyToDate(dataDateKey): the packed day-key as "Y-M-D", unpadded
keyToDate(dataDateKey) ==
    LET yearOffset == BitAnd(Shr(dataDateKey, 9), 255)
        month == BitAnd(Shr(dataDateKey, 5), 15)
        day == BitAnd(Shr(dataDateKey, 0), 31)
        year == 1970 + yearOffset
    IN  NatToStr(year) \o <<"-">> \o NatToStr(month) \o <<"-">> \o NatToStr(day)

\* formatICSDate that joins the three substrings as they are
formatICSDatePadded(icsDate) ==
    IF icsDate = Undefined \/ icsDate[1] = <<>> \/ Len(icsDate[1]) < 8 THEN <<>>
    ELSE LET s == icsDate[1]
         IN  substring(s, 0, 4) \o <<"-">> \o substring(s, 4, 6) \o <<"-">>
                 \o substring(s, 6, 8)

\* formatICSDate(icsDate): "YYYYMMDD" as "Y-M-D"; icsDate may be undefined
formatICSDate(icsDate) ==
    IF icsDate = Undefined \/ icsDate[1] = <<>> \/ Len(icsDate[1]) < 8 THEN <<>>
    ELSE LET s == icsDate[1]
             year == parseInt(substring(s, 0, 4))
             month == parseInt(substring(s, 4, 6))
             day == parseInt(substring(s, 6, 8))
         IN  NumToStr(year) \o <<"-">> \o NumToStr(month) \o <<"-">> \o NumToStr(day)

RECURSIVE SplitOn(_, _)
\* String.prototype.split(sep) without a limit: every piece between seps
SplitOn(s, sep) ==
    IF \A i \in 1..Len(s) : s[i] # sep THEN <<s>>
    ELSE LET i == CHOOSE j \in 1..Len(s) :
                      s[j] = sep /\ \A k \in 1..(j - 1) : s[k] # sep
         IN  <<SubSeq(s, 1, i - 1)>> \o SplitOn(SubSeq(s, i + 1, Len(s)), sep)

IsNumeral(s) == s # <<>> /\ \A i \in 1..Len(s) : IsDigit(s[i])

\* the day number (days since 1970-1-1) of day d of month m of year y, as
\* the Date constructor computes it: a day past the month's end runs on
\* into the next month
DayNumber(y, m, d) ==
    LET yy == IF m <= 2 THEN y - 1 ELSE y
        era == yy \div 400
        yoe == yy - era * 400
        mp == IF m > 2 THEN m - 3 ELSE m + 9
        doy == (153 * mp + 2) \div 5 + d - 1
        doe == yoe * 365 + yoe \div 4 - yoe \div 100 + doy
    IN  era * 146097 + doe - 719468

WeekDayNames ==
    <<"Sunday", "Monday", "Tuesday", "Wednesday", "Thursday", "Friday", "Saturday">>

\* getWeekDayName(dateStr): new Date(dateStr) read as a local "Y-M-D" date
\* (month 1..12, day 1..31), then its long English weekday name
getWeekDayName(dateStr) ==
    LET parts == SplitOn(dateStr, "-")
    IN  IF Len(parts) # 3 \/ \E i \in 1..3 : ~IsNumeral(parts[i])
        THEN "Invalid Date"
        ELSE LET y == DigitsVal(parts[1])
                 m == DigitsVal(parts[2])
                 d == DigitsVal(parts[3])
             IN  IF m < 1 \/ m > 12 \/ d < 1 \/ d > 31 THEN "Invalid Date"
                 ELSE WeekDayNames[((DayNumber(y, m, d) + 4) % 7) + 1]

(***************************************************************************)
(* popup.js: the ICS parser                                                *)
(***************************************************************************)
\* the words of the ICS lines the parser knows
kCALNAME == <<"X-WR-CALNAME">>

kDTSTART == <<"DTSTART;VALUE=DATE">>

kDTEND == <<"DTEND;VALUE=DATE">>

kSUMMARY == <<"SUMMARY">>

lineBEGIN == <<"BEGIN", ":", "VEVENT">>

lineEND == <<"END", ":", "VEVENT">>

RECURSIVE SplitLines(_)
\* data.split(/\r?\n/): a line ends at "\n", or at "\r" followed by "\n"
SplitLines(data) ==
    IF \A i \in 1..Len(data) : data[i] # "\n" THEN <<data>>
    ELSE LET i == CHOOSE j \in 1..Len(data) :
                      data[j] = "\n" /\ \A k \in 1..(j - 1) : data[k] # "\n"
             stop == IF i > 1 /\ data[i - 1] = "\r" THEN i - 2 ELSE i - 1
         IN  <<SubSeq(data, 1, stop)>> \o SplitLines(SubSeq(data, i + 1, Len(data)))

\* line.split(":", 2): the pieces between colons, cut down to the first two
SplitLimit2(line) ==
    LET parts == SplitOn(line, ":")
    IN  IF Len(parts) > 2 THEN SubSeq(parts, 1, 2) ELSE parts

\* const [key, value] = line.split(":", 2)
LineKey(line) == SplitLimit2(line)[1]

LineValue(line) ==
    LET parts == SplitLimit2(line)
    IN  IF Len(parts) >= 2 THEN Some(parts[2]) ELSE Undefined

\* currentEvent = {}
EmptyEvent ==
    [start |-> Undefined, end |-> Undefined, name |-> Undefined,
     calendarTitle |-> Undefined]

\* new Calendar(): events = [], title = ""
NewCalendar == [title |-> Some(<<>>), events |-> <<>>]

\* the state of one parseICS call: the calendar's title and events, and
\* the local currentEvent (<<>> is null, <<e>> the open accumulator e)
ParseStart(cal) == [title |-> cal.title, events |-> <<>>, currentEvent |-> <<>>]

\* ParseLine with BEGIN:VEVENT keeping an accumulator that is already open
ParseLineKeepOpen(st, line) ==
    LET key == LineKey(line)
        value == LineValue(line)
        cur == st.currentEvent
    IN  IF key = kCALNAME THEN [st EXCEPT !.title = value]
        ELSE IF line = lineBEGIN THEN
            IF cur # <<>> THEN st ELSE [st EXCEPT !.currentEvent = <<EmptyEvent>>]
        ELSE IF line = lineEND THEN
            IF cur # <<>>
            THEN [st EXCEPT !.events = Append(@, [cur[1] EXCEPT !.calendarTitle = st.title]),
                            !.currentEvent = <<>>]
            ELSE st
        ELSE IF key = kDTSTART THEN
            IF cur # <<>> THEN [st EXCEPT !.currentEvent = <<[cur[1] EXCEPT !.start = value]>>]
            ELSE st
        ELSE IF key = kDTEND THEN
            IF cur # <<>> THEN [st EXCEPT !.currentEvent = <<[cur[1] EXCEPT !.end = value]>>]
            ELSE st
        ELSE IF key = kSUMMARY THEN
            IF cur # <<>> THEN [st EXCEPT !.currentEvent = <<[cur[1] EXCEPT !.name = value]>>]
            ELSE st
        ELSE st

\* ParseLine with the title stamped when the block begins
ParseLineStampAtBegin(st, line) ==
    LET key == LineKey(line)
        value == LineValue(line)
        cur == st.currentEvent
    IN  IF key = kCALNAME THEN [st EXCEPT !.title = value]
        ELSE IF line = lineBEGIN
            THEN [st EXCEPT !.currentEvent = <<[EmptyEvent EXCEPT !.calendarTitle = st.title]>>]
        ELSE IF line = lineEND THEN
            IF cur # <<>>
            THEN [st EXCEPT !.events = Append(@, cur[1]), !.currentEvent = <<>>]
            ELSE st
        ELSE IF key = kDTSTART THEN
            IF cur # <<>> THEN [st EXCEPT !.currentEvent = <<[cur[1] EXCEPT !.start = value]>>]
            ELSE st
        ELSE IF key = kDTEND THEN
            IF cur # <<>> THEN [st EXCEPT !.currentEvent = <<[cur[1] EXCEPT !.end = value]>>]
            ELSE st
        ELSE IF key = kSUMMARY THEN
            IF cur # <<>> THEN [st EXCEPT !.currentEvent = <<[cur[1] EXCEPT !.name = value]>>]
            ELSE st
        ELSE st

\* one turn of lines.forEach(line => ...)
ParseLine(st, line) ==
    LET key == LineKey(line)
        value == LineValue(line)
        cur == st.currentEvent
    IN  IF key = kCALNAME THEN [st EXCEPT !.title = value]
        ELSE IF line = lineBEGIN THEN [st EXCEPT !.currentEvent = <<EmptyEvent>>]
        ELSE IF line = lineEND THEN
            IF cur # <<>>
            THEN [st EXCEPT !.events = Append(@, [cur[1] EXCEPT !.calendarTitle = st.title]),
                            !.currentEvent = <<>>]
            ELSE st
        ELSE IF key = kDTSTART THEN
            IF cur # <<>> THEN [st EXCEPT !.currentEvent = <<[cur[1] EXCEPT !.start = value]>>]
            ELSE st
        ELSE IF key = kDTEND THEN
            IF cur # <<>> THEN [st EXCEPT !.currentEvent = <<[cur[1] EXCEPT !.end = value]>>]
            ELSE st
        ELSE IF key = kSUMMARY THEN
            IF cur # <<>> THEN [st EXCEPT !.currentEvent = <<[cur[1] EXCEPT !.name = value]>>]
            ELSE st
        ELSE st

RECURSIVE ParseLines(_, _)
ParseLines(st, ls) ==
    IF ls = <<>> THEN st ELSE ParseLines(ParseLine(st, Head(ls)), Tail(ls))

\* Calendar.parseICS(data) on the calendar cal: the calendar afterwards
parseICS(cal, data) ==
    LET st == ParseLines(ParseStart(cal), SplitLines(data))
    IN  [title |-> st.title, events |-> st.events]

(***************************************************************************)
(* content.js: color resolution and the annotator pass                     *)
(***************************************************************************)
\* obj[key] of a JavaScript object: undefined when the key is absent
Lookup(obj, key) == IF key \in DOMAIN obj THEN Some(obj[key]) ELSE Undefined

\* a color value in a condition: undefined and "" are falsy
Truthy(c) == c # Undefined /\ c[1] # ""

\* the property name a title is converted to in calendarColors[title]
PropKey(t) == IF t = Undefined THEN <<"undefined">> ELSE t[1]

\* no color: null
Null == <<>>

RECURSIVE ScanEventsNoBreak(_, _, _, _)
\* the scan without its break: the last matching event decides
ScanEventsNoBreak(calendarEvents, dateStr, calendarColors, appliedColor) ==
    IF calendarEvents = <<>> THEN appliedColor
    ELSE LET event == Head(calendarEvents)
             eventDate == formatICSDate(event.start)
             color == Lookup(calendarColors, PropKey(event.calendarTitle))
         IN  ScanEventsNoBreak(Tail(calendarEvents), dateStr, calendarColors,
                               IF eventDate = dateStr /\ Truthy(color) THEN color
                               ELSE appliedColor)

RECURSIVE ScanEventsDateOnly(_, _, _, _)
\* the scan that takes an event on the date whether or not its calendar has
\* a color
ScanEventsDateOnly(calendarEvents, dateStr, calendarColors, appliedColor) ==
    IF calendarEvents = <<>> THEN appliedColor
    ELSE LET event == Head(calendarEvents)
             eventDate == formatICSDate(event.start)
             color == Lookup(calendarColors, PropKey(event.calendarTitle))
         IN  IF eventDate = dateStr THEN color
             ELSE ScanEventsDateOnly(Tail(calendarEvents), dateStr, calendarColors,
                                     appliedColor)

RECURSIVE ScanEventsEmptyMatches(_, _, _, _)
\* the scan that takes an event without a usable start as one on every date
ScanEventsEmptyMatches(calendarEvents, dateStr, calendarColors, appliedColor) ==
    IF calendarEvents = <<>> THEN appliedColor
    ELSE LET event == Head(calendarEvents)
             eventDate == formatICSDate(event.start)
             color == Lookup(calendarColors, PropKey(event.calendarTitle))
         IN  IF (eventDate = <<>> \/ eventDate = dateStr) /\ Truthy(color) THEN color
             ELSE ScanEventsEmptyMatches(Tail(calendarEvents), dateStr, calendarColors,
                                         appliedColor)

RECURSIVE ScanEvents(_, _, _, _)
\* for (let event of calendarEvents) { ... break; }
ScanEvents(calendarEvents, dateStr, calendarColors, appliedColor) ==
    IF calendarEvents = <<>> THEN appliedColor
    ELSE LET event == Head(calendarEvents)
             eventDate == formatICSDate(event.start)
             color == Lookup(calendarColors, PropKey(event.calendarTitle))
         IN  IF eventDate = dateStr /\ Truthy(color) THEN color
             ELSE ScanEvents(Tail(calendarEvents), dateStr, calendarColors, appliedColor)

\* the resolution with the weekday color kept when there is one
ResolveColorDayFirst(dateStr, dayColors, calendarColors, calendarEvents) ==
    LET dayName == getWeekDayName(dateStr)
        dayColor == Lookup(dayColors, dayName)
    IN  IF Truthy(dayColor) THEN dayColor
        ELSE ScanEvents(calendarEvents, dateStr, calendarColors, Null)

\* the color applyCustomColors settles on for the date dateStr: <<c>> or Null
ResolveColor(dateStr, dayColors, calendarColors, calendarEvents) ==
    LET dayName == getWeekDayName(dateStr)
        dayColor == Lookup(dayColors, dayName)
        appliedColor == IF Truthy(dayColor) THEN dayColor ELSE Null
    IN  ScanEvents(calendarEvents, dateStr, calendarColors, appliedColor)

\* the date string of a day cell: from data-datekey, else from data-date
CellDate(cell) ==
    IF cell.attr = "data-datekey" THEN keyToDate(parseInt(cell.value))
    ELSE cell.value

\* the opacity written with a color
ThemeOpacity(dark) == IF dark THEN "0.7" ELSE "0.9"

\* ApplyToCell that sets the marker and the opacity but not the color
ApplyToCellMarkOnly(cell, dayColors, calendarColors, calendarEvents, dark) ==
    LET dateStr == CellDate(cell)
        appliedColor == ResolveColor(dateStr, dayColors, calendarColors, calendarEvents)
    IN  IF dateStr = <<>> THEN cell
        ELSE IF appliedColor # Null THEN
            IF ~cell.customColored
            THEN [cell EXCEPT !.customColored = TRUE,
                              !.opacity = ThemeOpacity(dark)]
            ELSE cell
        ELSE IF cell.customColored
            THEN [cell EXCEPT !.customColored = FALSE,
                              !.backgroundColor = "",
                              !.opacity = ""]
        ELSE cell

\* ApplyToCell with the marker test joined to the color test, so that the
\* clearing branch also takes a marked cell that has a color
ApplyToCellFlatIf(cell, dayColors, calendarColors, calendarEvents, dark) ==
    LET dateStr == CellDate(cell)
        appliedColor == ResolveColor(dateStr, dayColors, calendarColors, calendarEvents)
    IN  IF dateStr = <<>> THEN cell
        ELSE IF appliedColor # Null /\ ~cell.customColored
            THEN [cell EXCEPT !.customColored = TRUE,
                              !.backgroundColor = appliedColor[1],
                              !.opacity = ThemeOpacity(dark)]
        ELSE IF cell.customColored
            THEN [cell EXCEPT !.customColored = FALSE,
                              !.backgroundColor = "",
                              !.opacity = ""]
        ELSE cell

\* ApplyToCell that removes the marker of a cell without a color but leaves
\* its style
ApplyToCellUnmarkOnly(cell, dayColors, calendarColors, calendarEvents, dark) ==
    LET dateStr == CellDate(cell)
        appliedColor == ResolveColor(dateStr, dayColors, calendarColors, calendarEvents)
    IN  IF dateStr = <<>> THEN cell
        ELSE IF appliedColor # Null THEN
            IF ~cell.customColored
            THEN [cell EXCEPT !.customColored = TRUE,
                              !.backgroundColor = appliedColor[1],
                              !.opacity = ThemeOpacity(dark)]
            ELSE cell
        ELSE IF cell.customColored
            THEN [cell EXCEPT !.customColored = FALSE]
        ELSE cell

\* ApplyToCell that removes the marker of a cell without a color but leaves
\* its opacity
ApplyToCellKeepOpacity(cell, dayColors, calendarColors, calendarEvents, dark) ==
    LET dateStr == CellDate(cell)
        appliedColor == ResolveColor(dateStr, dayColors, calendarColors, calendarEvents)
    IN  IF dateStr = <<>> THEN cell
        ELSE IF appliedColor # Null THEN
            IF ~cell.customColored
            THEN [cell EXCEPT !.customColored = TRUE,
                              !.backgroundColor = appliedColor[1],
                              !.opacity = ThemeOpacity(dark)]
            ELSE cell
        ELSE IF cell.customColored
            THEN [cell EXCEPT !.customColored = FALSE,
                              !.backgroundColor = ""]
        ELSE cell

\* ApplyToCell that writes the color and the opacity whether or not the
\* marker is there
ApplyToCellRestyle(cell, dayColors, calendarColors, calendarEvents, dark) ==
    LET dateStr == CellDate(cell)
        appliedColor == ResolveColor(dateStr, dayColors, calendarColors, calendarEvents)
    IN  IF dateStr = <<>> THEN cell
        ELSE IF appliedColor # Null
            THEN [cell EXCEPT !.customColored = TRUE,
                              !.backgroundColor = appliedColor[1],
                              !.opacity = ThemeOpacity(dark)]
        ELSE IF cell.customColored
            THEN [cell EXCEPT !.customColored = FALSE,
                              !.backgroundColor = "",
                              !.opacity = ""]
        ELSE cell

\* the body of dayCells.forEach(cell => ...): the cell afterwards
ApplyToCell(cell, dayColors, calendarColors, calendarEvents, dark) ==
    LET dateStr == CellDate(cell)
        appliedColor == ResolveColor(dateStr, dayColors, calendarColors, calendarEvents)
    IN  IF dateStr = <<>> THEN cell
        ELSE IF appliedColor # Null THEN
            IF ~cell.customColored
            THEN [cell EXCEPT !.customColored = TRUE,
                              !.backgroundColor = appliedColor[1],
                              !.opacity = ThemeOpacity(dark)]
            ELSE cell
        ELSE IF cell.customColored
            THEN [cell EXCEPT !.customColored = FALSE,
                              !.backgroundColor = "",
                              !.opacity = ""]
        ELSE cell

(***************************************************************************)
(* State                                                                   *)
(***************************************************************************)
VARIABLES
    \* chrome.storage.sync: dayColors, calendarColors, calendarEvents, loadedCalendars
    store,
    \* popup.js: the popup's lifecycle, its working list, the load handler's
    \* timers, and the form (day rows, calendar rows)
    popup, loadedCalendars, timers, dayForm, calForm,
    \* content.js: the host page's day cells, the passes whose storage read is
    \* pending, whether the observer is attached, the theme signal
    cells, pendingPasses, pageLoaded, observing, darkMode,
    \* one parseICS call: the text, its lines, the next line, the parser's
    \* state, and (history) the line at which each event was emitted and the
    \* blocks the text was built from
    data, lines, pos, parse, emittedAt, shape,
    \* one keyToDate call, and one formatICSDate call
    dataDateKey, dateStr, icsDate, eventDate,
    \* one color resolution: its inputs and its result
    resolveIn, resolveOut

storeVars == <<store>>

popupVars == <<popup, loadedCalendars, timers, dayForm, calForm>>

pageVars == <<cells, pendingPasses, pageLoaded, observing, darkMode>>

parserVars == <<data, lines, pos, parse, emittedAt, shape>>

codecVars == <<dataDateKey, dateStr, icsDate, eventDate>>

resolveVars == <<resolveIn, resolveOut>>

vars ==
    <<store, popup, loadedCalendars, timers, dayForm, calForm, cells, pendingPasses,
      pageLoaded, observing, darkMode, data, lines, pos, parse, emittedAt,
      shape, dataDateKey, dateStr, icsDate, eventDate, resolveIn, resolveOut>>

(***************************************************************************)
(* Sample values the inputs are drawn from                                 *)
(***************************************************************************)
\* 2024-01-15, a Monday, and 2024-01-16, a Tuesday, as ICS dates
ICS15 == <<"2", "0", "2", "4", "0", "1", "1", "5">>

ICS16 == <<"2", "0", "2", "4", "0", "1", "1", "6">>

\* the same two days as packed day-keys: (54 << 9) | (1 << 5) | day
Key15 == (54 * 512) + (1 * 32) + 15

Key16 == (54 * 512) + (1 * 32) + 16

\* option values of the calendar rows' select (popup.js 121, 122)
CalendarColorOptions == {"rgba(128, 102, 161, 0.7)", "rgba(108, 140, 140, 0.7)"}

\* the first option, which a freshly built select shows
DefaultCalendarColor == "rgba(128, 102, 161, 0.7)"

\* option values of the day rows' selects: the model follows one, so a day
\* row's select always shows it
DayColorOptions == {"rgba(225, 206, 187, 0.7)"}

\* the option a day row's select shows before any choice
DefaultDayColor == "rgba(225, 206, 187, 0.7)"

\* the day rows the model follows
Days == {"Monday"}

\* every object with keys among keySet and values among valueSet
Objects(keySet, valueSet) == UNION {[ks -> valueSet] : ks \in SUBSET keySet}

\* every sequence over S of length at most n
SeqsUpTo(S, n) == UNION {[1..k -> S] : k \in 0..n}

RECURSIVE Join(_, _)
\* the lines with eol between them, as one text
Join(ls, eol) ==
    IF ls = <<>> THEN <<>>
    ELSE IF Len(ls) = 1 THEN ls[1]
    ELSE ls[1] \o eol \o Join(Tail(ls), eol)

RECURSIVE Flatten(_)
\* the sequences of ss, one after the other
Flatten(ss) == IF ss = <<>> THEN <<>> ELSE Head(ss) \o Flatten(Tail(ss))

(***************************************************************************)
(* The initial state: nothing stored, the popup closed, no page            *)
(***************************************************************************)
EmptyStore ==
    [dayColors |-> <<>>, calendarColors |-> <<>>, calendarEvents |-> <<>>,
     loadedCalendars |-> <<>>]

\* the day rows as the popup's page shows them before restore: unchecked
InitialDayForm == [d \in Days |-> [checked |-> FALSE, color |-> DefaultDayColor]]

PopupClosed ==
    /\ popup = "closed"
    /\ loadedCalendars = <<>>
    /\ timers = <<>>
    /\ dayForm = InitialDayForm
    /\ calForm = <<>>

NoPage ==
    /\ cells = <<>>
    /\ pendingPasses = 0
    /\ pageLoaded = FALSE
    /\ observing = FALSE
    /\ darkMode = FALSE

NoParse ==
    /\ data = <<>>
    /\ lines = <<>>
    /\ pos = 0
    /\ parse = ParseStart(NewCalendar)
    /\ emittedAt = <<>>
    /\ shape = [wellFormed |-> FALSE, title |-> <<>>, blocks |-> <<>>]

NoDecode ==
    /\ dataDateKey = NaN
    /\ dateStr = Undefined
    /\ icsDate = Undefined
    /\ eventDate = Undefined

NoResolve ==
    /\ resolveIn = [dateStr |-> <<>>, dayColors |-> <<>>, calendarColors |-> <<>>,
                    calendarEvents |-> <<>>]
    /\ resolveOut = [done |-> FALSE, appliedColor |-> Null]

(***************************************************************************)
(* SpecCodec: keyToDate applied to a packed day-key                        *)
(***************************************************************************)
\* the day-keys tried: -MaxNegKey..MaxKey
MaxKey == 262143

MaxNegKey == 1024

CodecInit ==
    /\ store = EmptyStore
    /\ PopupClosed
    /\ NoPage
    /\ NoParse
    /\ NoResolve
    /\ dataDateKey \in {Num(k) : k \in (-MaxNegKey)..MaxKey}
    /\ dateStr = Undefined
    /\ icsDate = Undefined
    /\ eventDate = Undefined

\* dateStr = keyToDate(dateKey)
Decode ==
    /\ dateStr = Undefined
    /\ dateStr' = Some(keyToDate(dataDateKey))
    /\ UNCHANGED <<dataDateKey, icsDate, eventDate, storeVars, popupVars, pageVars,
                   parserVars, resolveVars>>

CodecNext == Decode

SpecCodec == CodecInit /\ [][CodecNext]_vars

(***************************************************************************)
(* SpecJoin: one calendar date as the host page's day-key and as an ICS    *)
(* date, each through its conversion                                       *)
(***************************************************************************)
\* const year = 1970 + yearOffset
BaseYear == 1970

\* (dataDateKey >> 9) & 0xFF: the greatest year offset a day-key holds
MaxYearOffset == 255

\* the day-key the host page gives the date: (year - 1970) << 9 | month << 5 | day
PackKey(y, m, d) == ((y - BaseYear) * 512) + (m * 32) + d

\* n as a numeral of w digits, zero-padded
RECURSIVE Padded(_, _)
Padded(n, w) ==
    IF w = 0 THEN <<>> ELSE Padded(n \div 10, w - 1) \o <<DigitChars[(n % 10) + 1]>>

\* the DTSTART value an ICS file gives the date: YYYYMMDD
ICSOf(y, m, d) == Padded(y, 4) \o Padded(m, 2) \o Padded(d, 2)

JoinInit ==
    /\ store = EmptyStore
    /\ PopupClosed
    /\ NoPage
    /\ NoParse
    /\ NoResolve
    /\ \E y \in BaseYear..(BaseYear + MaxYearOffset), m \in 1..12, d \in 1..31 :
           /\ dataDateKey = Num(PackKey(y, m, d))
           /\ icsDate = Some(ICSOf(y, m, d))
    /\ dateStr = Undefined
    /\ eventDate = Undefined

\* const eventDate = formatICSDate(event.start)
FormatStart ==
    /\ eventDate = Undefined
    /\ eventDate' = Some(formatICSDate(icsDate))
    /\ UNCHANGED <<dataDateKey, dateStr, icsDate, storeVars, popupVars, pageVars,
                   parserVars, resolveVars>>

JoinNext == Decode \/ FormatStart

SpecJoin == JoinInit /\ [][JoinNext]_vars

(***************************************************************************)
(* SpecResolve: the color resolution of one date                           *)
(***************************************************************************)
MaxEvents == 3

\* stored events: on either day for three calendars, and with a start that
\* is too short or absent
EventPool ==
    [start : {Some(ICS15), Some(ICS16)},
     end : {Undefined},
     name : {Undefined},
     calendarTitle : {Some(<<"Work">>), Some(<<"Home">>), Some(<<"Gym">>)}]
    \cup
    [start : {Some(<<"2", "0", "2", "4", "0", "1", "1">>), Undefined},
     end : {Undefined},
     name : {Undefined},
     calendarTitle : {Some(<<"Work">>)}]

ResolveInit ==
    /\ store = EmptyStore
    /\ PopupClosed
    /\ NoPage
    /\ NoParse
    /\ NoDecode
    /\ resolveIn \in
          [dateStr : {keyToDate(Num(Key15)), keyToDate(Num(Key16))},
           dayColors : Objects({"Monday"}, DayColorOptions),
           calendarColors : Objects({<<"Work">>, <<"Home">>}, CalendarColorOptions),
           calendarEvents : SeqsUpTo(EventPool, MaxEvents)]
    /\ resolveOut = [done |-> FALSE, appliedColor |-> Null]

Resolve ==
    /\ ~resolveOut.done
    /\ resolveOut' =
          [done |-> TRUE,
           appliedColor |-> ResolveColor(resolveIn.dateStr, resolveIn.dayColors,
                                         resolveIn.calendarColors, resolveIn.calendarEvents)]
    /\ UNCHANGED <<resolveIn, storeVars, popupVars, pageVars, parserVars, codecVars>>

ResolveNext == Resolve

SpecResolve == ResolveInit /\ [][ResolveNext]_vars

(***************************************************************************)
(* SpecParser: one parseICS call on a fresh Calendar, line by line         *)
(***************************************************************************)
MaxLines == 4

MaxBlocks == 2

\* the lines a text is made of when its lines are free
LinePool ==
    { kCALNAME \o <<":", "Work">>,
      kCALNAME \o <<":", "Home", ":", "Office">>,
      lineBEGIN,
      lineEND,
      kDTSTART \o <<":">> \o ICS15,
      kDTEND \o <<":">> \o ICS16,
      kSUMMARY \o <<":", "Lunch", ":", "Bob">>,
      kSUMMARY,
      <<"VERSION", ":", "2.0">> }

\* the complete blocks a well-formed text is made of: the values of the
\* three property lines and the order the lines come in
BlockPool ==
    [start : {ICS15, ICS16},
     end : {ICS16},
     name : {<<"Lunch">>, <<"Lunch", ":", "Bob">>},
     startFirst : BOOLEAN]

TitlePool == {<<"Work">>, <<"Home", ":", "Office">>}

BlockLines(b) ==
    IF b.startFirst
    THEN <<lineBEGIN, kDTSTART \o <<":">> \o b.start, kDTEND \o <<":">> \o b.end,
           kSUMMARY \o <<":">> \o b.name, lineEND>>
    ELSE <<lineBEGIN, kSUMMARY \o <<":">> \o b.name, kDTEND \o <<":">> \o b.end,
           kDTSTART \o <<":">> \o b.start, lineEND>>

\* one X-WR-CALNAME line, then the blocks
DocLines(t, blocks) ==
    <<kCALNAME \o <<":">> \o t>> \o Flatten([n \in 1..Len(blocks) |-> BlockLines(blocks[n])])

ParserInit ==
    /\ store = EmptyStore
    /\ PopupClosed
    /\ NoPage
    /\ NoDecode
    /\ NoResolve
    /\ \/ \E ls \in SeqsUpTo(LinePool, MaxLines) :
             /\ data = Join(ls, <<"\n">>)
             /\ shape = [wellFormed |-> FALSE, title |-> <<>>, blocks |-> <<>>]
       \/ \E t \in TitlePool, blocks \in SeqsUpTo(BlockPool, MaxBlocks),
             eol \in {<<"\n">>, <<"\r", "\n">>} :
             /\ data = Join(DocLines(t, blocks), eol)
             /\ shape = [wellFormed |-> TRUE, title |-> t, blocks |-> blocks]
    /\ lines = <<>>
    /\ pos = 0
    /\ parse = ParseStart(NewCalendar)
    /\ emittedAt = <<>>

\* this.events = []; const lines = data.split(/\r?\n/); let currentEvent = null
ParseBegin ==
    /\ pos = 0
    /\ lines' = SplitLines(data)
    /\ parse' = ParseStart(NewCalendar)
    /\ pos' = 1
    /\ UNCHANGED <<data, emittedAt, shape, storeVars, popupVars, pageVars, codecVars,
                   resolveVars>>

\* the forEach callback on the next line
ParseNextLine ==
    /\ pos >= 1
    /\ pos <= Len(lines)
    /\ parse' = ParseLine(parse, lines[pos])
    /\ emittedAt' = IF Len(parse'.events) > Len(parse.events)
                    THEN Append(emittedAt, pos) ELSE emittedAt
    /\ pos' = pos + 1
    /\ UNCHANGED <<data, lines, shape, storeVars, popupVars, pageVars, codecVars,
                   resolveVars>>

ParserNext == ParseBegin \/ ParseNextLine

SpecParser == ParserInit /\ [][ParserNext]_vars

ParseDone == pos = Len(lines) + 1

(***************************************************************************)
(* SpecAnnotator: content.js in one tab of the host page                   *)
(***************************************************************************)
NumCells == 2

MaxPending == 2

\* the events of two parsed sample files
WorkFile ==
    Join(DocLines(<<"Work">>,
                  <<[start |-> ICS15, end |-> ICS16, name |-> <<"Lunch">>,
                     startFirst |-> TRUE]>>), <<"\n">>)

HomeFile ==
    Join(DocLines(<<"Home">>,
                  <<[start |-> ICS16, end |-> ICS16, name |-> <<"Lunch">>,
                     startFirst |-> TRUE]>>), <<"\n">>)

\* the settings the tab may find in the store: written by a popup's save
\* (a calendar that is checked there has its events saved with its color)
SettingsDocs ==
    {d \in [dayColors : Objects({"Monday"}, DayColorOptions),
            calendarColors : Objects({<<"Work">>}, {DefaultCalendarColor}),
            calendarEvents : {<<>>, parseICS(NewCalendar, WorkFile).events},
            loadedCalendars : {<<>>}] :
        d.calendarColors # <<>> => d.calendarEvents # <<>>}

\* the date attribute the host page gives a day cell
CellAttrs ==
    {[attr |-> "data-datekey", value |-> NatToStr(Key15)],
     [attr |-> "data-datekey", value |-> NatToStr(Key16)],
     [attr |-> "data-date", value |-> <<"2", "0", "2", "4", "-", "1", "-", "1", "5">>]}

\* no element
NoCell ==
    [present |-> FALSE, attr |-> "", value |-> <<>>, customColored |-> FALSE,
     backgroundColor |-> "", opacity |-> ""]

\* an element as the host page renders it: native style, no marker
FreshCell(a) ==
    [present |-> TRUE, attr |-> a.attr, value |-> a.value, customColored |-> FALSE,
     backgroundColor |-> "", opacity |-> ""]

AnnotatorInit ==
    /\ store \in SettingsDocs
    /\ PopupClosed
    /\ NoParse
    /\ NoDecode
    /\ NoResolve
    /\ cells = [i \in 1..NumCells |-> NoCell]
    /\ pendingPasses = 0
    /\ pageLoaded = FALSE
    /\ observing = FALSE
    /\ darkMode \in BOOLEAN

\* applyCustomColors(): chrome.storage.sync.get is issued, its callback pending
IssuePass == pendingPasses' = pendingPasses + 1

\* the observer's callback without its call of applyCustomColors
NotifyLogOnly == UNCHANGED pendingPasses

\* the MutationObserver callback after a child-list change under the main
\* region, when the observer is attached
Notify ==
    IF observing THEN pendingPasses < MaxPending /\ IssuePass
    ELSE UNCHANGED pendingPasses

\* window 'load': a first pass, then the observer on div[role="main"] when
\* the page has one
PageLoad ==
    /\ ~pageLoaded
    /\ pageLoaded' = TRUE
    /\ pendingPasses < MaxPending
    /\ IssuePass
    /\ observing' \in BOOLEAN
    /\ UNCHANGED <<cells, darkMode, storeVars, popupVars, parserVars, codecVars,
                   resolveVars>>

\* the host page inserts a day cell (the model gives it the first free
\* place: the places of the cells have no meaning)
HostInsert ==
    /\ \E i \in 1..NumCells, a \in CellAttrs :
           /\ ~cells[i].present
           /\ \A j \in 1..(i - 1) : cells[j].present
           /\ cells' = [cells EXCEPT ![i] = FreshCell(a)]
    /\ Notify
    /\ UNCHANGED <<pageLoaded, observing, darkMode, storeVars, popupVars, parserVars,
                   codecVars, resolveVars>>

\* the host page removes a day cell
HostRemove ==
    /\ \E i \in 1..NumCells :
           /\ cells[i].present
           /\ cells' = [cells EXCEPT ![i] = NoCell]
    /\ Notify
    /\ UNCHANGED <<pageLoaded, observing, darkMode, storeVars, popupVars, parserVars,
                   codecVars, resolveVars>>

\* the host page moves an element to another date by rewriting its date
\* attribute: no child-list change, so no notification
HostRedate ==
    /\ \E i \in 1..NumCells, a \in CellAttrs :
           /\ cells[i].present
           /\ cells[i].attr = a.attr
           /\ cells[i].value # a.value
           /\ cells' = [cells EXCEPT ![i].value = a.value]
    /\ UNCHANGED <<pendingPasses, pageLoaded, observing, darkMode, storeVars, popupVars,
                   parserVars, codecVars, resolveVars>>

\* the color-scheme preference changes
ThemeChange ==
    /\ darkMode' = ~darkMode
    /\ UNCHANGED <<cells, pendingPasses, pageLoaded, observing, storeVars, popupVars,
                   parserVars, codecVars, resolveVars>>

\* the stored settings change under the tab: a save in a popup whose active
\* tab is another one, or the store's sync
SettingsChange ==
    /\ store' \in SettingsDocs \ {store}
    /\ UNCHANGED <<pageVars, popupVars, parserVars, codecVars, resolveVars>>

\* the tab is reloaded (chrome.tabs.reload after a save): a new page
TabReload ==
    /\ pageLoaded
    /\ cells' = [i \in 1..NumCells |-> NoCell]
    /\ pendingPasses' = 0
    /\ pageLoaded' = FALSE
    /\ observing' = FALSE
    /\ UNCHANGED <<darkMode, storeVars, popupVars, parserVars, codecVars, resolveVars>>

\* the callback of chrome.storage.sync.get in applyCustomColors: one pass
\* over the day cells
PassCallback ==
    /\ pendingPasses > 0
    /\ pendingPasses' = pendingPasses - 1
    /\ cells' = [i \in 1..NumCells |->
                    IF cells[i].present
                    THEN ApplyToCell(cells[i], store.dayColors, store.calendarColors,
                                     store.calendarEvents, darkMode)
                    ELSE cells[i]]
    /\ UNCHANGED <<pageLoaded, observing, darkMode, storeVars, popupVars, parserVars,
                   codecVars, resolveVars>>

AnnotatorNext ==
    \/ PageLoad
    \/ HostInsert
    \/ HostRemove
    \/ HostRedate
    \/ ThemeChange
    \/ SettingsChange
    \/ TabReload
    \/ PassCallback

SpecAnnotator == AnnotatorInit /\ [][AnnotatorNext]_vars

(***************************************************************************)
(* SpecReentrant: content.js in one tab while the stored settings, the     *)
(* theme and the dates of the cells stay as they are: the host page only   *)
(* inserts and removes cells                                               *)
(***************************************************************************)
ReentrantNext ==
    \/ PageLoad
    \/ HostInsert
    \/ HostRemove
    \/ PassCallback

SpecReentrant == AnnotatorInit /\ [][ReentrantNext]_vars

\* a step of PassCallback as the count of pending callbacks shows it: it
\* is the only step that takes a pending callback away, and it can be taken
\* whenever one is pending
PassDelivered ==
    /\ pendingPasses > 0
    /\ pendingPasses' = pendingPasses - 1

\* the same tab, with the storage delivering its callbacks: a read that was
\* issued is answered (weak fairness of the PassCallback steps)
SpecReapply ==
    AnnotatorInit /\ [][ReentrantNext]_vars /\ WF_pendingPasses(PassDelivered)

(***************************************************************************)
(* SpecPasses: two passes issued one after the other over the same cells   *)
(* and the same stored settings                                            *)
(***************************************************************************)
\* a cell an earlier pass has marked
StyledCell(a, color, opacity) ==
    [present |-> TRUE, attr |-> a.attr, value |-> a.value, customColored |-> TRUE,
     backgroundColor |-> color, opacity |-> opacity]

\* the cells a pass may find: none, fresh ones, and ones an earlier pass
\* marked under settings and a theme that may have changed since
CellStates ==
    {NoCell}
    \cup {FreshCell(a) : a \in CellAttrs}
    \cup {StyledCell(a, c, ThemeOpacity(dark)) :
              a \in CellAttrs, c \in {DefaultDayColor, DefaultCalendarColor},
              dark \in BOOLEAN}

PassesInit ==
    /\ store \in SettingsDocs
    /\ PopupClosed
    /\ NoParse
    /\ NoDecode
    /\ NoResolve
    /\ cells \in [1..NumCells -> CellStates]
    /\ pendingPasses = 2
    /\ pageLoaded = TRUE
    /\ observing = FALSE
    /\ darkMode \in BOOLEAN

PassesNext == PassCallback \/ ThemeChange

SpecPasses == PassesInit /\ [][PassesNext]_vars

(***************************************************************************)
(* SpecRevert: one pass over cells that earlier passes have marked, under  *)
(* settings that may have changed since                                    *)
(***************************************************************************)
MarkedCellStates == {c \in CellStates : c.present => c.customColored}

RevertInit ==
    /\ store \in SettingsDocs
    /\ PopupClosed
    /\ NoParse
    /\ NoDecode
    /\ NoResolve
    /\ cells \in [1..NumCells -> MarkedCellStates]
    /\ pendingPasses = 1
    /\ pageLoaded = TRUE
    /\ observing = FALSE
    /\ darkMode \in BOOLEAN

RevertNext == PassCallback

SpecRevert == RevertInit /\ [][RevertNext]_vars

(***************************************************************************)
(* SpecPopup: popup.js, one popup at a time, and the store it writes       *)
(***************************************************************************)
MaxCalendars == 2

\* the files the user may pick
FilePool == {WorkFile, HomeFile}

\* new Calendar(file): loadICS has started reading the file
LoadingCalendar(file) == [title |-> Some(<<>>), events |-> <<>>, reading |-> Some(file)]

\* loadedCalendars.map(cal => ({title: cal.getTitle(), events: cal.getEvents()}))
StoredCalendars(cals) ==
    [n \in 1..Len(cals) |-> [title |-> cals[n].title, events |-> cals[n].events]]

\* displayCalendarSettings(): one row per working calendar, its checkbox
\* checked and its select on the first option
DisplayedRows(cals) ==
    [n \in 1..Len(cals) |->
        [value |-> PropKey(cals[n].title), checked |-> TRUE,
         color |-> DefaultCalendarColor]]

\* document.querySelector(`select[name="color-${calTitle}"]`): the select
\* of the first row of that title
FirstRow(rows, calTitle) ==
    CHOOSE n \in 1..Len(rows) :
        rows[n].value = calTitle /\ \A m \in 1..(n - 1) : rows[m].value # calTitle

\* the restore handler's calendar colors: the rows as displayed, then for
\* each title with a stored color the first select of that title set to it
RestoredRows(cals, calendarColors) ==
    LET rows == DisplayedRows(cals)
    IN  [n \in 1..Len(rows) |->
            IF Truthy(Lookup(calendarColors, rows[n].value))
                  /\ FirstRow(rows, rows[n].value) = n
            THEN [rows[n] EXCEPT !.color = calendarColors[rows[n].value]]
            ELSE rows[n]]

\* the restore handler's day colors
RestoredDays(dayColors) ==
    [d \in Days |->
        IF Truthy(Lookup(dayColors, d))
        THEN [checked |-> TRUE, color |-> dayColors[d]]
        ELSE InitialDayForm[d]]

\* the submit handler's dayColors
FormDayColors(days) ==
    [d \in {e \in Days : days[e].checked} |-> days[d].color]

\* the submit handler's calendarColors
FormCalendarColors(rows) ==
    [t \in {rows[n].value : n \in {m \in 1..Len(rows) : rows[m].checked}} |->
        rows[FirstRow(rows, t)].color]

\* the submit handler's calendarEvents
AllEvents(cals) == Flatten([n \in 1..Len(cals) |-> cals[n].events])

\* s without its element at index
RemoveAt(s, index) == SubSeq(s, 1, index - 1) \o SubSeq(s, index + 1, Len(s))

PopupInit ==
    /\ store = EmptyStore
    /\ PopupClosed
    /\ NoPage
    /\ NoParse
    /\ NoDecode
    /\ NoResolve

\* DOMContentLoaded and the callback of its storage read
OpenPopup ==
    /\ popup = "closed"
    /\ popup' = "open"
    /\ loadedCalendars' =
          [n \in 1..Len(store.loadedCalendars) |->
              [title |-> store.loadedCalendars[n].title,
               events |-> store.loadedCalendars[n].events,
               reading |-> Undefined]]
    /\ calForm' = RestoredRows(loadedCalendars', store.calendarColors)
    /\ dayForm' = RestoredDays(store.dayColors)
    /\ UNCHANGED <<timers, storeVars, pageVars, parserVars, codecVars, resolveVars>>

\* the popup goes away (window.close after a save, or the user leaves):
\* its script state, timers and file reads go with it
ClosePopup ==
    /\ popup = "open"
    /\ popup' = "closed"
    /\ loadedCalendars' = <<>>
    /\ timers' = <<>>
    /\ dayForm' = InitialDayForm
    /\ calForm' = <<>>
    /\ UNCHANGED <<storeVars, pageVars, parserVars, codecVars, resolveVars>>

\* the user switches a day row on or off
ToggleDay ==
    /\ popup = "open"
    /\ \E d \in Days : dayForm' = [dayForm EXCEPT ![d].checked = ~@]
    /\ UNCHANGED <<popup, loadedCalendars, timers, calForm, storeVars, pageVars,
                   parserVars, codecVars, resolveVars>>

\* the user switches a calendar row on or off
ToggleCalendar ==
    /\ popup = "open"
    /\ \E n \in 1..Len(calForm) : calForm' = [calForm EXCEPT ![n].checked = ~@]
    /\ UNCHANGED <<popup, loadedCalendars, timers, dayForm, storeVars, pageVars,
                   parserVars, codecVars, resolveVars>>

\* the user picks a color in a calendar row
PickCalendarColor ==
    /\ popup = "open"
    /\ \E n \in 1..Len(calForm), c \in CalendarColorOptions :
           /\ calForm[n].color # c
           /\ calForm' = [calForm EXCEPT ![n].color = c]
    /\ UNCHANGED <<popup, loadedCalendars, timers, dayForm, storeVars, pageVars,
                   parserVars, codecVars, resolveVars>>

\* loadCalendarBtn click with a file chosen: new Calendar(file) starts the
\* read, setTimeout(..., 500) starts the timer
ClickLoad ==
    /\ popup = "open"
    /\ Len(loadedCalendars) + Len(timers) < MaxCalendars
    /\ \E file \in FilePool : timers' = Append(timers, LoadingCalendar(file))
    /\ UNCHANGED <<popup, loadedCalendars, dayForm, calForm, storeVars, pageVars,
                   parserVars, codecVars, resolveVars>>

\* reader.onload of a calendar still waiting for its timer
FileReadBeforeTimer ==
    /\ popup = "open"
    /\ \E k \in 1..Len(timers) :
           /\ timers[k].reading # Undefined
           /\ timers' =
                 [timers EXCEPT ![k] =
                     [title |-> parseICS(timers[k], timers[k].reading[1]).title,
                      events |-> parseICS(timers[k], timers[k].reading[1]).events,
                      reading |-> Undefined]]
    /\ UNCHANGED <<popup, loadedCalendars, dayForm, calForm, storeVars, pageVars,
                   parserVars, codecVars, resolveVars>>

\* reader.onload of a calendar that is already in the working list
FileReadAfterTimer ==
    /\ popup = "open"
    /\ \E k \in 1..Len(loadedCalendars) :
           /\ loadedCalendars[k].reading # Undefined
           /\ loadedCalendars' =
                 [loadedCalendars EXCEPT ![k] =
                     [title |-> parseICS(loadedCalendars[k],
                                         loadedCalendars[k].reading[1]).title,
                      events |-> parseICS(loadedCalendars[k],
                                          loadedCalendars[k].reading[1]).events,
                      reading |-> Undefined]]
    /\ UNCHANGED <<popup, timers, dayForm, calForm, storeVars, pageVars, parserVars,
                   codecVars, resolveVars>>

\* the load handler's timer: push the calendar, store the working list,
\* and (the write's callback) display the rows again
LoadTimer ==
    /\ popup = "open"
    /\ timers # <<>>
    /\ loadedCalendars' = Append(loadedCalendars, Head(timers))
    /\ timers' = Tail(timers)
    /\ store' = [store EXCEPT !.loadedCalendars = StoredCalendars(loadedCalendars')]
    /\ calForm' = DisplayedRows(loadedCalendars')
    /\ UNCHANGED <<popup, dayForm, pageVars, parserVars, codecVars, resolveVars>>

\* a click on the X of row index + 1: removeCalendar(index), and (the
\* write's callback) display the rows again
RemoveCalendar ==
    /\ popup = "open"
    /\ \E index \in 0..(Len(calForm) - 1) :
           /\ ~(index < 0 \/ index >= Len(loadedCalendars))
           /\ loadedCalendars' = RemoveAt(loadedCalendars, index + 1)
    /\ store' = [store EXCEPT !.loadedCalendars = StoredCalendars(loadedCalendars')]
    /\ calForm' = DisplayedRows(loadedCalendars')
    /\ UNCHANGED <<popup, timers, dayForm, pageVars, parserVars, codecVars, resolveVars>>

\* settingsForm submit: everything is written from the form and the
\* working list
SaveSettings ==
    /\ popup = "open"
    /\ store' = [dayColors |-> FormDayColors(dayForm),
                 calendarColors |-> FormCalendarColors(calForm),
                 calendarEvents |-> AllEvents(loadedCalendars),
                 loadedCalendars |-> StoredCalendars(loadedCalendars)]
    /\ UNCHANGED <<popupVars, pageVars, parserVars, codecVars, resolveVars>>

PopupNext ==
    \/ OpenPopup
    \/ ClosePopup
    \/ ToggleDay
    \/ ToggleCalendar
    \/ PickCalendarColor
    \/ ClickLoad
    \/ FileReadBeforeTimer
    \/ FileReadAfterTimer
    \/ LoadTimer
    \/ RemoveCalendar
    \/ SaveSettings

SpecPopup == PopupInit /\ [][PopupNext]_vars

(***************************************************************************)
(* SpecRoundTrip: the popup opened on a stored document and saved with     *)
(* nothing touched in between                                              *)
(***************************************************************************)
\* the persisted form of the calendars the files of the pool parse to
ParsedFiles ==
    {[title |-> parseICS(NewCalendar, file).title,
      events |-> parseICS(NewCalendar, file).events] : file \in FilePool}

\* the documents a save writes: day colors of day rows, calendars whose
\* files were read, colors of some of these calendars, and the events of
\* all of them in list order
SavedDocs ==
    UNION {
        [dayColors : Objects(Days, DayColorOptions),
         calendarColors : Objects({PropKey(cals[n].title) : n \in 1..Len(cals)},
                                  CalendarColorOptions),
         calendarEvents : {AllEvents(cals)},
         loadedCalendars : {cals}] : cals \in SeqsUpTo(ParsedFiles, MaxCalendars)}

RoundTripInit ==
    /\ store \in SavedDocs
    /\ PopupClosed
    /\ NoPage
    /\ NoParse
    /\ NoDecode
    /\ NoResolve

RoundTripNext ==
    \/ OpenPopup
    \/ SaveSettings
    \/ ClosePopup

SpecRoundTrip == RoundTripInit /\ [][RoundTripNext]_vars

(***************************************************************************)
(* Properties of the popup and the store (SpecPopup)                       *)
(***************************************************************************)
\* C1 as stated: in every state the stored calendarEvents is the
\* concatenation, in list order, of the events of the stored loadedCalendars.
C1_EventsAreConcatenation ==
    store.calendarEvents =
        Flatten([n \in 1..Len(store.loadedCalendars) |-> store.loadedCalendars[n].events])

\* this step is removeCalendar(index - 1) on a valid index: the popup stays
\* open and the working list loses its element at index
RemoveStep(index) ==
    /\ popup = "open"
    /\ popup' = "open"
    /\ index \in 1..Len(loadedCalendars)
    /\ loadedCalendars' = RemoveAt(loadedCalendars, index)

\* C2 as stated, for a calendar whose file had been read: after
\* removeCalendar of a calendar whose title T no other loaded calendar has,
\* the store holds no event with calendarTitle T and no calendarColors entry
\* for T.
C2_RemovePurgesTitle ==
    [][\A index \in 1..MaxCalendars :
          (/\ RemoveStep(index)
           /\ loadedCalendars[index].reading = Undefined
           /\ loadedCalendars[index].events # <<>>
           /\ \A n \in 1..Len(loadedCalendars') :
                  loadedCalendars'[n].title # loadedCalendars[index].title)
          => /\ \A n \in 1..Len(store'.calendarEvents) :
                    store'.calendarEvents[n].calendarTitle # loadedCalendars[index].title
             /\ PropKey(loadedCalendars[index].title) \notin DOMAIN store'.calendarColors]_vars

\* C19 as stated: whichever of the file read and the load handler's timer
\* comes first, a calendar is in the working list only once its file has
\* been read and parsed, and every persisted loadedCalendars entry holds
\* the parsed title and events of a file.
C19_LoadWaitsForRead ==
    /\ \A n \in 1..Len(loadedCalendars) : loadedCalendars[n].reading = Undefined
    /\ \A n \in 1..Len(store.loadedCalendars) : store.loadedCalendars[n] \in ParsedFiles

\* C20 as stated: from a stored document whose calendarEvents is the
\* concatenation of its loadedCalendars' events (and whose calendars and
\* colors are such as a save writes), opening the popup and saving with
\* nothing touched in between writes the document back as it was; a loaded
\* calendar without a calendarColors entry gets none.
C20_OpenSaveRoundTrip ==
    [][SaveSettings => store' = store]_vars

(***************************************************************************)
(* Properties of keyToDate (SpecCodec)                                     *)
(***************************************************************************)
\* s is the decimal numeral of n, without padding
IsUnpadded(s, n) ==
    /\ IsNumeral(s)
    /\ DigitsVal(s) = n
    /\ (Len(s) = 1 \/ s[1] # "0")

\* C10: keyToDate(k) is year-month-day with year = 1970 + ((k >> 9) & 0xFF),
\* month = (k >> 5) & 0xF and day = k & 0x1F, each without zero-padding, and
\* the bits of k above bit 16 do not change it.
C10_KeyToDateLayout ==
    dateStr # Undefined =>
        LET k == dataDateKey[1]
            parts == SplitOn(dateStr[1], "-")
        IN  /\ Len(parts) = 3
            /\ IsUnpadded(parts[1], 1970 + ((k \div 512) % 256))
            /\ IsUnpadded(parts[2], (k \div 32) % 16)
            /\ IsUnpadded(parts[3], k % 32)
            /\ dateStr[1] = keyToDate(Num(k % 131072))

\* a key with bits above bit 16 set and a one-digit month has been decoded
C10_Witness ==
    /\ dataDateKey = Num(Key15 + 131072)
    /\ dateStr = Some(<<"2", "0", "2", "4", "-", "1", "-", "1", "5">>)

(***************************************************************************)
(* Properties of the two conversions together (SpecJoin)                   *)
(***************************************************************************)
\* C11: for every date of the years 1970..2225, the day-key of the date
\* through keyToDate and the YYYYMMDD string of the date through
\* formatICSDate give the same string, so the event's date equals the cell's.
C11_JoinKeyAgreement ==
    (dateStr # Undefined /\ eventDate # Undefined) => eventDate = dateStr

\* 2024-01-05 has been converted both ways to the unpadded "2024-1-5"
C11_Witness ==
    /\ icsDate = Some(<<"2", "0", "2", "4", "0", "1", "0", "5">>)
    /\ dataDateKey = Num(Key15 - 10)
    /\ dateStr = Some(<<"2", "0", "2", "4", "-", "1", "-", "5">>)
    /\ eventDate = dateStr

(***************************************************************************)
(* Properties of the color resolution (SpecResolve)                        *)
(***************************************************************************)
\* event i of the resolution's input falls on its date and its calendar
\* has a color
Matching(i) ==
    LET event == resolveIn.calendarEvents[i]
    IN  /\ formatICSDate(event.start) = resolveIn.dateStr
        /\ PropKey(event.calendarTitle) \in DOMAIN resolveIn.calendarColors

MatchingEvents == {i \in 1..Len(resolveIn.calendarEvents) : Matching(i)}

EventColor(i) ==
    resolveIn.calendarColors[PropKey(resolveIn.calendarEvents[i].calendarTitle)]

WeekdayRule == getWeekDayName(resolveIn.dateStr) \in DOMAIN resolveIn.dayColors

WeekdayColor == resolveIn.dayColors[getWeekDayName(resolveIn.dateStr)]

\* C4: a date with a weekday rule and an event of a colored calendar resolves
\* to the color of such a calendar: the weekday color does not win.
C4_OverridePrecedence ==
    (resolveOut.done /\ WeekdayRule /\ MatchingEvents # {}) =>
        /\ resolveOut.appliedColor # Null
        /\ \E i \in MatchingEvents : resolveOut.appliedColor[1] = EventColor(i)
        /\ (\A i \in MatchingEvents : EventColor(i) # WeekdayColor)
               => resolveOut.appliedColor[1] # WeekdayColor

C4_Witness ==
    /\ resolveOut.done
    /\ WeekdayRule
    /\ MatchingEvents # {}
    /\ \A i \in MatchingEvents : EventColor(i) # WeekdayColor

\* C5: with no event that is both on the date and of a colored calendar, the
\* result is the weekday's color when there is one and none otherwise.
C5_WeekdayFallback ==
    (resolveOut.done /\ MatchingEvents = {}) =>
        resolveOut.appliedColor = IF WeekdayRule THEN Some(WeekdayColor) ELSE Null

\* the fallback taken past an event on the date whose calendar has no color
C5_Witness ==
    /\ resolveOut.done
    /\ MatchingEvents = {}
    /\ WeekdayRule
    /\ \E i \in 1..Len(resolveIn.calendarEvents) :
           formatICSDate(resolveIn.calendarEvents[i].start) = resolveIn.dateStr
    /\ resolveOut.appliedColor # Null

\* C6: the result is the color of the earliest event in list order that is on
\* the date and of a colored calendar.
C6_FirstMatchWins ==
    (resolveOut.done /\ MatchingEvents # {}) =>
        LET first == CHOOSE i \in MatchingEvents : \A j \in MatchingEvents : i <= j
        IN  resolveOut.appliedColor = Some(EventColor(first))

\* an event on the date without a color was skipped, and a later matching
\* event of another color did not change the result
C6_Witness ==
    /\ resolveOut.done
    /\ \E i, j, k \in 1..Len(resolveIn.calendarEvents) :
           /\ i < j
           /\ j < k
           /\ formatICSDate(resolveIn.calendarEvents[i].start) = resolveIn.dateStr
           /\ ~Matching(i)
           /\ Matching(j)
           /\ Matching(k)
           /\ EventColor(j) # EventColor(k)
           /\ resolveOut.appliedColor = Some(EventColor(j))

\* the start of an event is absent or has fewer than 8 characters
ShortStart(event) == event.start = Undefined \/ Len(event.start[1]) < 8

FullStart(event) == ~ShortStart(event)

\* C12: formatICSDate gives the empty string for a start that is absent or
\* shorter than 8 characters, and the resolution's result is the one the
\* same inputs give without the events that have such a start: no such event
\* decides the color.
C12_ShortStartNeverMatches ==
    /\ \A i \in 1..Len(resolveIn.calendarEvents) :
           ShortStart(resolveIn.calendarEvents[i])
               => formatICSDate(resolveIn.calendarEvents[i].start) = <<>>
    /\ resolveOut.done =>
           /\ resolveOut.appliedColor =
                  ResolveColor(resolveIn.dateStr, resolveIn.dayColors,
                               resolveIn.calendarColors,
                               SelectSeq(resolveIn.calendarEvents, FullStart))
           /\ (\A i \in 1..Len(resolveIn.calendarEvents) :
                   ShortStart(resolveIn.calendarEvents[i]))
                  => resolveOut.appliedColor =
                         IF WeekdayRule THEN Some(WeekdayColor) ELSE Null

\* events of a colored calendar with an absent start and with a 7-character
\* start came before an event on the date, and the date got no color from
\* them: with no weekday rule and the later event's calendar uncolored, none
C12_Witness ==
    /\ resolveOut.done
    /\ Len(resolveIn.calendarEvents) = 3
    /\ resolveIn.calendarEvents[1].start = Undefined
    /\ resolveIn.calendarEvents[2].start # Undefined
    /\ Len(resolveIn.calendarEvents[2].start[1]) = 7
    /\ PropKey(resolveIn.calendarEvents[1].calendarTitle) \in DOMAIN resolveIn.calendarColors
    /\ PropKey(resolveIn.calendarEvents[2].calendarTitle) \in DOMAIN resolveIn.calendarColors
    /\ formatICSDate(resolveIn.calendarEvents[3].start) = resolveIn.dateStr
    /\ ~WeekdayRule
    /\ resolveOut.appliedColor = Null

(***************************************************************************)
(* Properties of the parser (SpecParser)                                   *)
(***************************************************************************)
\* the text of a line before its first colon (all of it without a colon)
BeforeColon(line) ==
    IF \E i \in 1..Len(line) : line[i] = ":"
    THEN SubSeq(line, 1, (CHOOSE i \in 1..Len(line) :
                              line[i] = ":" /\ \A j \in 1..(i - 1) : line[j] # ":") - 1)
    ELSE line

\* the text of a line after its first colon
AfterColon(line) ==
    SubSeq(line, (CHOOSE i \in 1..Len(line) :
                      line[i] = ":" /\ \A j \in 1..(i - 1) : line[j] # ":") + 1, Len(line))

\* an accumulator is open when line i is reached: a BEGIN:VEVENT line comes
\* before it with no END:VEVENT line in between
OpenAt(i) ==
    \E j \in 1..(i - 1) :
        /\ lines[j] = lineBEGIN
        /\ \A k \in (j + 1)..(i - 1) : lines[k] # lineEND

\* the END:VEVENT lines among the first n lines that close an accumulator
Closing(n) == {i \in 1..n : lines[i] = lineEND /\ OpenAt(i)}

\* the last BEGIN:VEVENT line before line i
LastBegin(i) ==
    CHOOSE j \in 1..(i - 1) :
        lines[j] = lineBEGIN /\ \A k \in (j + 1)..(i - 1) : lines[k] # lineBEGIN

\* what the lines strictly between b and e leave in the field of the
\* property named key: the split value of the last such line
FieldFrom(key, b, e) ==
    LET at == {i \in (b + 1)..(e - 1) : BeforeColon(lines[i]) = key}
    IN  IF at = {} THEN Undefined
        ELSE LineValue(lines[CHOOSE i \in at : \A j \in at : j <= i])

\* the title in force when line i is reached: the split value of the last
\* X-WR-CALNAME line before it, the empty string without one
TitleBefore(i) ==
    LET at == {j \in 1..(i - 1) : BeforeColon(lines[j]) = kCALNAME}
    IN  IF at = {} THEN Some(<<>>)
        ELSE LineValue(lines[CHOOSE j \in at : \A k \in at : k <= j])

\* C7 as stated: a text of one X-WR-CALNAME line and N complete blocks
\* parses to N events in file order, each with the calendar name and the
\* start, end and name values of its own block.
C7_WellFormedRoundTrip ==
    (ParseDone /\ shape.wellFormed) =>
        /\ Len(parse.events) = Len(shape.blocks)
        /\ \A n \in 1..Len(parse.events) :
               parse.events[n] =
                   [start |-> Some(shape.blocks[n].start),
                    end |-> Some(shape.blocks[n].end),
                    name |-> Some(shape.blocks[n].name),
                    calendarTitle |-> Some(shape.title)]

\* C8: at every point of the scan the events are those of the END:VEVENT
\* lines that closed an accumulator, one each and in order; each holds
\* only what the property lines between its own BEGIN:VEVENT and END:VEVENT
\* set; and the accumulator is open exactly when a block is.
C8_OneEventPerClosingEnd ==
    pos >= 1 =>
        /\ Len(parse.events) = Cardinality(Closing(pos - 1))
        /\ Len(emittedAt) = Len(parse.events)
        /\ \A n \in 1..Len(emittedAt) :
               /\ emittedAt[n] \in Closing(pos - 1)
               /\ \A m \in 1..(n - 1) : emittedAt[m] < emittedAt[n]
               /\ LET e == emittedAt[n]
                      b == LastBegin(e)
                  IN  /\ parse.events[n].start = FieldFrom(kDTSTART, b, e)
                      /\ parse.events[n].end = FieldFrom(kDTEND, b, e)
                      /\ parse.events[n].name = FieldFrom(kSUMMARY, b, e)
        /\ (parse.currentEvent # <<>>) = OpenAt(pos)

\* an event was emitted without a start although a DTSTART line came in
\* the accumulator that a second BEGIN:VEVENT superseded
C8_Witness ==
    /\ ParseDone
    /\ Len(parse.events) = 1
    /\ parse.events[1].start = Undefined
    /\ \E i \in 1..(emittedAt[1] - 1) : BeforeColon(lines[i]) = kDTSTART /\ OpenAt(i)

\* C9: each event carries the title in force at its END:VEVENT line, and the
\* calendar's title is the one in force where the scan stands (at the end:
\* that of the last X-WR-CALNAME line of the file).
C9_TitleAtEnd ==
    pos >= 1 =>
        /\ \A n \in 1..Len(parse.events) :
               /\ n <= Len(emittedAt)
               /\ parse.events[n].calendarTitle = TitleBefore(emittedAt[n])
        /\ parse.title = TitleBefore(pos)

\* an event that was emitted before any X-WR-CALNAME line carries the empty
\* title although a later line named the calendar
C9_Witness ==
    /\ ParseDone
    /\ Len(parse.events) >= 1
    /\ parse.events[1].calendarTitle = Some(<<>>)
    /\ parse.title = Some(<<"Work">>)

\* all of the text of a line after its first colon; undefined without one
Remainder(line) ==
    IF \E i \in 1..Len(line) : line[i] = ":" THEN Some(AfterColon(line)) ELSE Undefined

\* what the lines strictly between b and e leave in the field of the
\* property named key when the value is the whole remainder of the line
RemainderFrom(key, b, e) ==
    LET at == {i \in (b + 1)..(e - 1) : BeforeColon(lines[i]) = key}
    IN  IF at = {} THEN Undefined
        ELSE Remainder(lines[CHOOSE i \in at : \A j \in at : j <= i])

\* C18 as stated: the title of the calendar and the start, end and name of
\* every event are the complete remainder, after the first colon, of the
\* property line that set them, further colons included.
C18_ValueIsRemainderOfLine ==
    pos >= 1 =>
        /\ LET at == {j \in 1..(pos - 1) : BeforeColon(lines[j]) = kCALNAME}
           IN  at # {} =>
                   parse.title = Remainder(lines[CHOOSE j \in at : \A k \in at : k <= j])
        /\ \A n \in 1..Len(emittedAt) :
               LET e == emittedAt[n]
                   b == LastBegin(e)
               IN  /\ parse.events[n].start = RemainderFrom(kDTSTART, b, e)
                   /\ parse.events[n].end = RemainderFrom(kDTEND, b, e)
                   /\ parse.events[n].name = RemainderFrom(kSUMMARY, b, e)

(***************************************************************************)
(* Properties of the annotator (SpecAnnotator)                             *)
(***************************************************************************)
\* the color the settings doc resolve for the date of a cell
ResolvedIn(doc, cell) ==
    ResolveColor(CellDate(cell), doc.dayColors, doc.calendarColors, doc.calendarEvents)

\* the color the stored settings resolve for the date of a cell
Resolved(cell) == ResolvedIn(store, cell)

\* this step is a pass: only a pass takes one pending pass away and leaves
\* the page loaded
PassStep == pageLoaded /\ pageLoaded' /\ pendingPasses' = pendingPasses - 1

\* C3 as stated: after a pass every date cell whose date resolves to a color
\* c has background color c, whatever the cell carried before the pass.
C3_EachPassConverges ==
    [][PassStep =>
          \A i \in 1..NumCells :
              (cells'[i].present /\ CellDate(cells'[i]) # <<>>
                  /\ ResolvedIn(store', cells'[i]) # Null)
              => cells'[i].backgroundColor = ResolvedIn(store', cells'[i])[1]]_vars

\* C3 amended: after a pass every date cell that did not carry the marker
\* when the pass began and whose date resolves to a color c carries the
\* marker and has background color c; a cell that carried the marker and
\* whose date resolves to a color is left as the earlier pass wrote it.
C3_PassColorsUnmarkedCells ==
    [][PassStep =>
          \A i \in 1..NumCells :
              (cells[i].present /\ CellDate(cells[i]) # <<>> /\ Resolved(cells[i]) # Null)
              => IF cells[i].customColored
                 THEN cells'[i] = cells[i]
                 ELSE /\ cells'[i].customColored
                      /\ cells'[i].backgroundColor = Resolved(cells[i])[1]]_vars

\* a marked cell whose background is not the color its date resolves to,
\* beside a marked cell whose background is
C3_Witness ==
    /\ pageLoaded
    /\ \E i, j \in 1..NumCells :
           /\ cells[i].present
           /\ cells[i].customColored
           /\ Resolved(cells[i]) # Null
           /\ cells[i].backgroundColor # Resolved(cells[i])[1]
           /\ cells[j].present
           /\ cells[j].customColored
           /\ Resolved(cells[j]) = Some(cells[j].backgroundColor)

\* the colors the stored settings can hold
SettingsColors == DayColorOptions \cup CalendarColorOptions

\* C15: in every reachable state a cell carries the marker exactly when its
\* background color and opacity are values the annotator writes (a color of
\* the settings, the opacity of a theme); a cell without the marker has the
\* native, empty background color and opacity.
C15_MarkerInvariant ==
    \A i \in 1..NumCells :
        cells[i].present =>
            /\ cells[i].customColored <=>
                   (/\ cells[i].backgroundColor \in SettingsColors
                    /\ cells[i].opacity \in {ThemeOpacity(TRUE), ThemeOpacity(FALSE)})
            /\ ~cells[i].customColored =>
                   (cells[i].backgroundColor = "" /\ cells[i].opacity = "")

\* a cell marked under the other theme keeps that theme's opacity, beside
\* an unmarked cell in its native style whose date resolves to a color and
\* that a pending pass is about to mark
C15_Witness ==
    /\ pageLoaded
    /\ pendingPasses > 0
    /\ \E i, j \in 1..NumCells :
           /\ cells[i].present
           /\ cells[i].customColored
           /\ cells[i].opacity # ThemeOpacity(darkMode)
           /\ cells[j].present
           /\ ~cells[j].customColored
           /\ Resolved(cells[j]) # Null

(***************************************************************************)
(* Properties of overlapping passes (SpecReentrant)                        *)
(***************************************************************************)
\* what one pass leaves of a cell that the host page has just rendered
AfterSinglePass(cell) ==
    IF CellDate(cell) # <<>> /\ Resolved(cell) # Null
    THEN [present |-> TRUE, attr |-> cell.attr, value |-> cell.value,
          customColored |-> TRUE, backgroundColor |-> Resolved(cell)[1],
          opacity |-> ThemeOpacity(darkMode)]
    ELSE [present |-> TRUE, attr |-> cell.attr, value |-> cell.value,
          customColored |-> FALSE, backgroundColor |-> "", opacity |-> ""]

\* C16: with the stored settings unchanged and the observer attached, once
\* no callback is pending every present cell has the marker, background
\* color and opacity that a single pass over the final cells gives it,
\* however the passes, the notifications and the host's insertions and
\* removals were interleaved.
C16_PendingPassesConverge ==
    (pageLoaded /\ observing /\ pendingPasses = 0) =>
        \A i \in 1..NumCells :
            cells[i].present => cells[i] = AfterSinglePass(cells[i])

\* no callback is pending on an observed page whose places are all taken,
\* one by a cell the passes marked and one by a cell they left native
C16_Witness ==
    /\ pageLoaded
    /\ observing
    /\ pendingPasses = 0
    /\ \A i \in 1..NumCells : cells[i].present
    /\ \E i, j \in 1..NumCells :
           /\ cells[i].customColored
           /\ cells[i].backgroundColor = DefaultCalendarColor
           /\ ~cells[j].customColored

(***************************************************************************)
(* Properties of re-application (SpecReapply)                              *)
(***************************************************************************)
\* C17: on a loaded page with the observer attached, with the callbacks of
\* the storage delivered, every unmarked date cell whose date resolves to a
\* color (a cell the host page has inserted and no pass has reached yet)
\* eventually carries the marker and that color, unless the host page
\* removes it first: a pass that runs after the insertion is always issued.
C17_ReapplyLiveness ==
    \A i \in 1..NumCells :
        (/\ pageLoaded
         /\ observing
         /\ cells[i].present
         /\ ~cells[i].customColored
         /\ CellDate(cells[i]) # <<>>
         /\ Resolved(cells[i]) # Null)
        ~> (\/ ~cells[i].present
            \/ /\ cells[i].customColored
               /\ Some(cells[i].backgroundColor) = Resolved(cells[i]))

\* a cell inserted under the observer after the first pass had run has been
\* marked with the weekday color by the pass its insertion issued
C17_Witness ==
    /\ pageLoaded
    /\ observing
    /\ pendingPasses = 0
    /\ \E i \in 1..NumCells :
           /\ cells[i].present
           /\ cells[i].customColored
           /\ cells[i].backgroundColor = DefaultDayColor
           /\ Resolved(cells[i]) = Some(DefaultDayColor)
    /\ \E j \in 1..NumCells : ~cells[j].present

(***************************************************************************)
(* Properties of two passes in succession (SpecPasses)                     *)
(***************************************************************************)
\* this step is the second of the two passes
SecondPassStep == PassStep /\ pendingPasses = 1

\* C13: the second of two passes over the same cells with the same stored
\* settings changes no cell: marker, background color and opacity of every
\* cell are after it what the first pass left.
C13_SecondPassChangesNothing ==
    [][SecondPassStep => cells' = cells]_vars

\* both passes have run, the theme is not the one the first pass wrote an
\* opacity for, and a cell the first pass found marked still has a color
\* that is not the one its date resolves to
C13_Witness ==
    /\ pendingPasses = 0
    /\ \E i, j \in 1..NumCells :
           /\ cells[i].present
           /\ cells[i].customColored
           /\ Resolved(cells[i]) = Some(cells[i].backgroundColor)
           /\ cells[i].opacity # ThemeOpacity(darkMode)
           /\ cells[j].present
           /\ cells[j].customColored
           /\ Resolved(cells[j]) # Null
           /\ Resolved(cells[j]) # Some(cells[j].backgroundColor)

(***************************************************************************)
(* Properties of a pass over marked cells (SpecRevert)                     *)
(***************************************************************************)
\* C14: a pass that resolves no color for the date of a cell that carries
\* the marker clears the cell's background color and opacity and removes
\* the marker.
C14_PassRevertsUncoloredCell ==
    [][PassStep =>
          \A i \in 1..NumCells :
              (cells[i].present /\ cells[i].customColored
                  /\ CellDate(cells[i]) # <<>> /\ Resolved(cells[i]) = Null)
              => /\ cells'[i].present
                 /\ ~cells'[i].customColored
                 /\ cells'[i].backgroundColor = ""
                 /\ cells'[i].opacity = ""]_vars

\* the pass has run: one cell, marked before it as every cell was, is back
\* to its native style; another, whose date still resolves to a color, has
\* kept its marker
C14_Witness ==
    /\ pendingPasses = 0
    /\ \E i, j \in 1..NumCells :
           /\ cells[i].present
           /\ ~cells[i].customColored
           /\ cells[i].backgroundColor = ""
           /\ cells[i].opacity = ""
           /\ Resolved(cells[i]) = Null
           /\ cells[j].present
           /\ cells[j].customColored
           /\ Resolved(cells[j]) # Null

=============================================================================
